---- MODULE Spec2Model ----
(***************************************************************************)
(* A model of spatialdata/_core/_spatialdata.py: the SpatialData container *)
(* (five name -> element collections, an optional table, an optional       *)
(* backing path) together with the Zarr stores it writes to.               *)
(*                                                                         *)
(* An element object is a record                                           *)
(*   [id, data, tr, ndim, ms, ok, from]                                    *)
(* id    distinguishes instances that are structurally equal,              *)
(* data  is the payload, tr the transformation, ndim = len(get_dims(e)),   *)
(* ms    says whether a raster is a MultiscaleSpatialImage (FALSE for a    *)
(*       SpatialImage and for the kinds that are not rasters),             *)
(* ok    says whether the schema of its kind accepts it,                   *)
(* from  is InMemory for an object built by the caller and the store       *)
(*       place [loc, kind, name] for a handle reloaded from a store.       *)
(***************************************************************************)
EXTENDS Integers, Sequences, FiniteSets, TLC

\* mem    the five collections: kind -> (name -> element object)
\* table  the annotation table, None when there is none
\* path   the location of the backing store, None when unbacked
\* store  location -> the Zarr store there
\* last   the call made last: its arguments and the exception it ended with
\* calls  the number of calls made since construction
\* focus  the kind the caller adds elements of in this behaviour (write()
\*        persists every kind; a full container holds elements of all five)
\* parsed the last call of a parser of the models: its arguments and what
\*        it returned
\* dicts  the dictionary objects of two containers built side by side and
\*        of the arguments their constructors were given
VARIABLES mem, table, path, store, last, calls, focus, parsed, dicts

vars == <<mem, table, path, store, last, calls, focus, parsed, dicts>>

----------------------------------------------------------------------------
(* Universe *)

\* the order in which write() persists the collections
Kinds == <<"images", "labels", "points", "polygons", "shapes">>

KindSet == {Kinds[i] : i \in 1..Len(Kinds)}

Names == {"a", "b"}

Locs == {"L1", "L2"}

\* number of API calls made on the container after its construction
MaxCalls == 3

None == "None"

NoName == "-"

InMemory == [loc |-> "memory", kind |-> "-", name |-> "-"]

Empty == [x \in {} |-> x]

Del(c, n) == [x \in DOMAIN c \ {n} |-> c[x]]

Put(c, n, e) == [x \in DOMAIN c \cup {n} |-> IF x = n THEN e ELSE c[x]]

\* the number of axes the schemas of a kind accept (cyx / yx); the
\* non-raster kinds carry two spatial axes
DefaultNdim(kind) == IF kind = "images" THEN 3 ELSE 2

\* elements handed to the constructor: two distinct instances, equal in structure
InitElement(kind, name) ==
    [id |-> IF name = "a" THEN 1 ELSE 2, data |-> 1, tr |-> 1,
     ndim |-> DefaultNdim(kind), ms |-> FALSE, ok |-> TRUE, from |-> InMemory]

Rasters == {"labels", "images"}

\* a valid element with another payload and another transformation; the
\* raster is a multiscale one
NewElement(kind) ==
    [id |-> 3, data |-> 2, tr |-> 2, ndim |-> DefaultNdim(kind),
     ms |-> kind \in Rasters, ok |-> TRUE, from |-> InMemory]

\* an element the schema of its kind rejects
BadSchemaElement(kind) ==
    [id |-> 4, data |-> 2, tr |-> 2, ndim |-> DefaultNdim(kind), ms |-> FALSE,
     ok |-> FALSE, from |-> InMemory]

\* a raster with a number of axes that no image / labels schema accepts
BadDimsElement(kind) ==
    [id |-> 5, data |-> 2, tr |-> 2, ndim |-> IF kind = "images" THEN 2 ELSE 4,
     ms |-> FALSE, ok |-> TRUE, from |-> InMemory]

UserElements(kind) ==
    {NewElement(kind), BadSchemaElement(kind)}
        \cup (IF kind \in Rasters THEN {BadDimsElement(kind)} ELSE {})

TheTable == "table0"

----------------------------------------------------------------------------
(* The container as a value: s = [mem, table, path, store, exc].  exc is   *)
(* "ok" or the exception that ended the call.                              *)

Raise(s, e) == [s EXCEPT !.exc = e]

SetColl(s, kind, r) == [s EXCEPT !.mem[kind] = r.coll, !.exc = r.exc]

\* the number of axes a raster schema declares: Image2D (c, y, x),
\* Image3D (c, z, y, x), Labels2D (y, x), Labels3D (z, y, x)
SchemaNdim ==
    [Image2D |-> 3, Image3D |-> 4, Labels2D |-> 2, Labels3D |-> 3]

\* Image2D_s.validate(image), ... : the schema object decides; a raster
\* schema accepts only elements with its own axes
Validate(schema, element) ==
    /\ element.ok
    /\ schema \in DOMAIN SchemaNdim => element.ndim = SchemaNdim[schema]

\* mutant: the duplicate check is missing, an existing name is replaced
_add_image_in_memory_no_duplicate_check(coll, name, image, overwrite) ==
    LET c1 == IF name \in DOMAIN coll THEN Del(coll, name) ELSE coll
    IN  IF image.ndim \in {3, 4}
        THEN IF Validate("Image", image)
             THEN [exc |-> "ok", coll |-> Put(c1, name, image)]
             ELSE [exc |-> "SchemaViolation", coll |-> c1]
        ELSE [exc |-> "UnsupportedShape", coll |-> c1]

\* mutant: the two image schemas are exchanged
_add_image_in_memory_swapped(coll, name, image, overwrite) ==
    IF name \in DOMAIN coll /\ ~overwrite
    THEN [exc |-> "DuplicateName", coll |-> coll]
    ELSE LET c1 == IF name \in DOMAIN coll THEN Del(coll, name) ELSE coll
             ndim == image.ndim
         IN  IF ndim = 3
             THEN IF Validate("Image3D", image)
                  THEN [exc |-> "ok", coll |-> Put(c1, name, image)]
                  ELSE [exc |-> "SchemaViolation", coll |-> c1]
             ELSE IF ndim = 4
             THEN IF Validate("Image2D", image)
                  THEN [exc |-> "ok", coll |-> Put(c1, name, image)]
                  ELSE [exc |-> "SchemaViolation", coll |-> c1]
             ELSE [exc |-> "UnsupportedShape", coll |-> c1]

_add_image_in_memory(coll, name, image, overwrite) ==
    IF name \in DOMAIN coll /\ ~overwrite
    THEN [exc |-> "DuplicateName", coll |-> coll]
    ELSE LET c1 == IF name \in DOMAIN coll THEN Del(coll, name) ELSE coll
             ndim == image.ndim
         IN  IF ndim = 3
             THEN IF Validate("Image2D", image)
                  THEN [exc |-> "ok", coll |-> Put(c1, name, image)]
                  ELSE [exc |-> "SchemaViolation", coll |-> c1]
             ELSE IF ndim = 4
             THEN IF Validate("Image3D", image)
                  THEN [exc |-> "ok", coll |-> Put(c1, name, image)]
                  ELSE [exc |-> "SchemaViolation", coll |-> c1]
             ELSE [exc |-> "UnsupportedShape", coll |-> c1]

\* mutant: overwrite empties the collection instead of deleting one entry
_add_labels_in_memory_clearing(coll, name, labels, overwrite) ==
    IF name \in DOMAIN coll /\ ~overwrite
    THEN [exc |-> "DuplicateName", coll |-> coll]
    ELSE LET c1 == IF name \in DOMAIN coll THEN Empty ELSE coll
             ndim == labels.ndim
         IN  IF ndim = 2
             THEN IF Validate("Labels2D", labels)
                  THEN [exc |-> "ok", coll |-> Put(c1, name, labels)]
                  ELSE [exc |-> "SchemaViolation", coll |-> c1]
             ELSE IF ndim = 3
             THEN IF Validate("Labels3D", labels)
                  THEN [exc |-> "ok", coll |-> Put(c1, name, labels)]
                  ELSE [exc |-> "SchemaViolation", coll |-> c1]
             ELSE [exc |-> "UnsupportedShape", coll |-> c1]

_add_labels_in_memory(coll, name, labels, overwrite) ==
    IF name \in DOMAIN coll /\ ~overwrite
    THEN [exc |-> "DuplicateName", coll |-> coll]
    ELSE LET c1 == IF name \in DOMAIN coll THEN Del(coll, name) ELSE coll
             ndim == labels.ndim
         IN  IF ndim = 2
             THEN IF Validate("Labels2D", labels)
                  THEN [exc |-> "ok", coll |-> Put(c1, name, labels)]
                  ELSE [exc |-> "SchemaViolation", coll |-> c1]
             ELSE IF ndim = 3
             THEN IF Validate("Labels3D", labels)
                  THEN [exc |-> "ok", coll |-> Put(c1, name, labels)]
                  ELSE [exc |-> "SchemaViolation", coll |-> c1]
             ELSE [exc |-> "UnsupportedShape", coll |-> c1]

\* mutant: a copy of the element is stored
_add_polygons_in_memory_copy(coll, name, polygons, overwrite) ==
    IF name \in DOMAIN coll /\ ~overwrite
    THEN [exc |-> "DuplicateName", coll |-> coll]
    ELSE LET c1 == IF name \in DOMAIN coll THEN Del(coll, name) ELSE coll
         IN  IF Validate("Polygons", polygons)
             THEN [exc |-> "ok", coll |-> Put(c1, name, [polygons EXCEPT !.id = 9])]
             ELSE [exc |-> "SchemaViolation", coll |-> c1]

_add_polygons_in_memory(coll, name, polygons, overwrite) ==
    IF name \in DOMAIN coll /\ ~overwrite
    THEN [exc |-> "DuplicateName", coll |-> coll]
    ELSE LET c1 == IF name \in DOMAIN coll THEN Del(coll, name) ELSE coll
         IN  IF Validate("Polygons", polygons)
             THEN [exc |-> "ok", coll |-> Put(c1, name, polygons)]
             ELSE [exc |-> "SchemaViolation", coll |-> c1]

_add_shapes_in_memory(coll, name, shapes, overwrite) ==
    IF name \in DOMAIN coll /\ ~overwrite
    THEN [exc |-> "DuplicateName", coll |-> coll]
    ELSE LET c1 == IF name \in DOMAIN coll THEN Del(coll, name) ELSE coll
         IN  IF Validate("Shapes", shapes)
             THEN [exc |-> "ok", coll |-> Put(c1, name, shapes)]
             ELSE [exc |-> "SchemaViolation", coll |-> c1]

_add_points_in_memory(coll, name, points, overwrite) ==
    IF name \in DOMAIN coll /\ ~overwrite
    THEN [exc |-> "DuplicateName", coll |-> coll]
    ELSE LET c1 == IF name \in DOMAIN coll THEN Del(coll, name) ELSE coll
         IN  IF Validate("Points", points)
             THEN [exc |-> "ok", coll |-> Put(c1, name, points)]
             ELSE [exc |-> "SchemaViolation", coll |-> c1]

is_backed(s) == s.path # None

----------------------------------------------------------------------------
(* The stores.  store[loc] = [exists, root]; root maps the name of a group *)
(* of the store ("images", ..., "table") to its content, a map from        *)
(* element name to what was written: [data, tr, ndim, ms, ok].             *)

NoStore == [exists |-> FALSE, root |-> Empty]

Content(element) ==
    [data |-> element.data, tr |-> element.tr, ndim |-> element.ndim,
     ms |-> element.ms, ok |-> element.ok]

Root(s) == s.store[s.path].root

SetRoot(s, root) == [s EXCEPT !.store[s.path].root = root]

\* parse_url(file_path, mode="r") is not None
StoreExists(s, file_path) == s.store[file_path].exists

\* parse_url(file_path, mode="w").store; zarr.group(store=store): the call
\* passes no overwrite to zarr.group, so a hierarchy that is already at the
\* location is opened with the groups it holds; only a missing one is created
CreateStore(s, file_path) ==
    IF s.store[file_path].exists
    THEN s
    ELSE [s EXCEPT !.store[file_path] = [exists |-> TRUE, root |-> Empty]]

\* root.create_group(name=...): without overwrite, a group of that name that
\* is already in the store raises ContainsGroupError
create_group(s, group) ==
    IF group \in DOMAIN Root(s)
    THEN Raise(s, "ContainsGroup")
    ELSE SetRoot(s, Put(Root(s), group, Empty))

_init_add_element(s, name, element_type, overwrite) ==
    IF s.path = None
    THEN Raise(s, "NotBacked")
    ELSE LET root == Root(s)
             root1 == IF element_type # "labels" /\ element_type \notin DOMAIN root
                      THEN Put(root, element_type, Empty)
                      ELSE root
             \* whether the local variable elem_group has been assigned
             bound == element_type # "labels" \/ element_type \in DOMAIN root1
         IN  IF overwrite
             THEN IF ~bound
                  THEN Raise(SetRoot(s, root1), "UnboundLocalError")
                  ELSE IF name \in DOMAIN root1[element_type]
                       THEN SetRoot(s, Put(root1, element_type,
                                           Del(root1[element_type], name)))
                       ELSE SetRoot(s, root1)
             ELSE IF bound /\ name \in DOMAIN root1[element_type]
                  THEN Raise(SetRoot(s, root1), "AlreadyInStore")
                  ELSE SetRoot(s, root1)

\* write_image / write_labels / write_points / write_polygons / write_shapes:
\* the element is written under <element_type>/<name> of the backing store;
\* io = FALSE is a store write that raises before anything is written
write_element(s, element_type, name, element, io) ==
    IF ~io
    THEN Raise(s, "IOError")
    ELSE LET root == Root(s)
             group == IF element_type \in DOMAIN root THEN root[element_type] ELSE Empty
         IN  SetRoot(s, Put(root, element_type, Put(group, name, Content(element))))

\* _read_multiscale / _read_points: a lazy handle on <path>/<element_type>/<name>
read_element(s, element_type, name) ==
    LET c == Root(s)[element_type][name]
    IN  [id |-> 0, data |-> c.data, tr |-> c.tr, ndim |-> c.ndim, ms |-> c.ms,
         ok |-> c.ok,
         from |-> [loc |-> s.path, kind |-> element_type, name |-> name]]

add_image(s, name, image, overwrite, add_in_memory, io) ==
    LET s1 == IF add_in_memory
              THEN SetColl(s, "images",
                           _add_image_in_memory(s.mem["images"], name, image, overwrite))
              ELSE s
    IN  IF s1.exc # "ok" \/ ~is_backed(s1) THEN s1
        ELSE LET s2 == _init_add_element(s1, name, "images", overwrite)
             IN  IF s2.exc # "ok" THEN s2
                 ELSE LET s3 == write_element(s2, "images", name, s2.mem["images"][name], io)
                      IN  IF s3.exc # "ok" THEN s3
                          ELSE SetColl(s3, "images",
                                   _add_image_in_memory(s3.mem["images"], name,
                                       read_element(s3, "images", name), TRUE))

\* mutant: the store is prepared whether or not the container is backed
add_labels_requires_backing(s, name, labels, overwrite, add_in_memory, io) ==
    LET s1 == IF add_in_memory
              THEN SetColl(s, "labels",
                           _add_labels_in_memory(s.mem["labels"], name, labels, overwrite))
              ELSE s
    IN  IF s1.exc # "ok" THEN s1
        ELSE LET s2 == _init_add_element(s1, name, "labels", overwrite)
             IN  IF s2.exc # "ok" THEN s2
                 ELSE LET s3 == write_element(s2, "labels", name, s2.mem["labels"][name], io)
                      IN  IF s3.exc # "ok" THEN s3
                          ELSE SetColl(s3, "labels",
                                   _add_labels_in_memory(s3.mem["labels"], name,
                                       read_element(s3, "labels", name), TRUE))

add_labels(s, name, labels, overwrite, add_in_memory, io) ==
    LET s1 == IF add_in_memory
              THEN SetColl(s, "labels",
                           _add_labels_in_memory(s.mem["labels"], name, labels, overwrite))
              ELSE s
    IN  IF s1.exc # "ok" \/ ~is_backed(s1) THEN s1
        ELSE LET s2 == _init_add_element(s1, name, "labels", overwrite)
             IN  IF s2.exc # "ok" THEN s2
                 ELSE LET s3 == write_element(s2, "labels", name, s2.mem["labels"][name], io)
                      IN  IF s3.exc # "ok" THEN s3
                          ELSE SetColl(s3, "labels",
                                   _add_labels_in_memory(s3.mem["labels"], name,
                                       read_element(s3, "labels", name), TRUE))

\* mutant: the written points are not reloaded from the store
add_points_not_reloaded(s, name, points, overwrite, add_in_memory, io) ==
    LET s1 == IF add_in_memory
              THEN SetColl(s, "points",
                           _add_points_in_memory(s.mem["points"], name, points, overwrite))
              ELSE s
    IN  IF s1.exc # "ok" \/ ~is_backed(s1) THEN s1
        ELSE LET s2 == _init_add_element(s1, name, "points", overwrite)
             IN  IF s2.exc # "ok" THEN s2
                 ELSE write_element(s2, "points", name, s2.mem["points"][name], io)

add_points(s, name, points, overwrite, add_in_memory, io) ==
    LET s1 == IF add_in_memory
              THEN SetColl(s, "points",
                           _add_points_in_memory(s.mem["points"], name, points, overwrite))
              ELSE s
    IN  IF s1.exc # "ok" \/ ~is_backed(s1) THEN s1
        ELSE LET s2 == _init_add_element(s1, name, "points", overwrite)
             IN  IF s2.exc # "ok" THEN s2
                 ELSE LET s3 == write_element(s2, "points", name, s2.mem["points"][name], io)
                      IN  IF s3.exc # "ok" THEN s3
                          ELSE SetColl(s3, "points",
                                   _add_points_in_memory(s3.mem["points"], name,
                                       read_element(s3, "points", name), TRUE))

\* mutant: a store write that raises unsets path, as the except clause of
\* write() does
add_polygons_unbacking(s, name, polygons, overwrite, add_in_memory, io) ==
    LET s1 == IF add_in_memory
              THEN SetColl(s, "polygons",
                           _add_polygons_in_memory(s.mem["polygons"], name, polygons, overwrite))
              ELSE s
    IN  IF s1.exc # "ok" \/ ~is_backed(s1) THEN s1
        ELSE LET s2 == _init_add_element(s1, name, "polygons", overwrite)
             IN  IF s2.exc # "ok" THEN s2
                 ELSE LET s3 == write_element(s2, "polygons", name,
                                              s2.mem["polygons"][name], io)
                      IN  IF s3.exc # "ok" THEN [s3 EXCEPT !.path = None] ELSE s3

add_polygons(s, name, polygons, overwrite, add_in_memory, io) ==
    LET s1 == IF add_in_memory
              THEN SetColl(s, "polygons",
                           _add_polygons_in_memory(s.mem["polygons"], name, polygons, overwrite))
              ELSE s
    IN  IF s1.exc # "ok" \/ ~is_backed(s1) THEN s1
        ELSE LET s2 == _init_add_element(s1, name, "polygons", overwrite)
             IN  IF s2.exc # "ok" THEN s2
                 ELSE write_element(s2, "polygons", name, s2.mem["polygons"][name], io)

\* mutant: the shapes are kept in memory and never written to the store
add_shapes_unwritten(s, name, shapes, overwrite, add_in_memory, io) ==
    LET s1 == IF add_in_memory
              THEN SetColl(s, "shapes",
                           _add_shapes_in_memory(s.mem["shapes"], name, shapes, overwrite))
              ELSE s
    IN  IF s1.exc # "ok" \/ ~is_backed(s1) THEN s1
        ELSE _init_add_element(s1, name, "shapes", overwrite)

add_shapes(s, name, shapes, overwrite, add_in_memory, io) ==
    LET s1 == IF add_in_memory
              THEN SetColl(s, "shapes",
                           _add_shapes_in_memory(s.mem["shapes"], name, shapes, overwrite))
              ELSE s
    IN  IF s1.exc # "ok" \/ ~is_backed(s1) THEN s1
        ELSE LET s2 == _init_add_element(s1, name, "shapes", overwrite)
             IN  IF s2.exc # "ok" THEN s2
                 ELSE write_element(s2, "shapes", name, s2.mem["shapes"][name], io)

----------------------------------------------------------------------------
(* write()                                                                 *)

\* the call write() makes for one element of a collection:
\* self.add_<kind>(name=el, <kind>=self.<kind>[el], _add_in_memory=False)
add_element(s, kind, name, io) ==
    CASE kind = "images"   -> add_image(s, name, s.mem[kind][name], FALSE, FALSE, io)
      [] kind = "labels"   -> add_labels(s, name, s.mem[kind][name], FALSE, FALSE, io)
      [] kind = "points"   -> add_points(s, name, s.mem[kind][name], FALSE, FALSE, io)
      [] kind = "polygons" -> add_polygons(s, name, s.mem[kind][name], FALSE, FALSE, io)
      [] kind = "shapes"   -> add_shapes(s, name, s.mem[kind][name], FALSE, FALSE, io)

\* keys = list(self.<kind>.keys()), in the insertion order of the dictionary
Keys(coll, order) == SelectSeq(order, LAMBDA n : n \in DOMAIN coll)

\* for el in keys: self.add_<kind>(...); an exception leaves the loop
RECURSIVE _write_keys(_, _, _, _)
_write_keys(s, kind, keys, fail) ==
    IF keys = <<>> \/ s.exc # "ok" THEN s
    ELSE _write_keys(add_element(s, kind, Head(keys), fail # <<kind, Head(keys)>>),
                     kind, Tail(keys), fail)

\* the five "if len(self.<kind>):" blocks of write(), in their order
RECURSIVE _write_kinds(_, _, _, _)
_write_kinds(s, i, order, fail) ==
    IF i > Len(Kinds) \/ s.exc # "ok" THEN s
    ELSE LET kind == Kinds[i]
             s1 == IF DOMAIN s.mem[kind] # {}
                   THEN _write_keys(create_group(s, kind), kind,
                                    Keys(s.mem[kind], order), fail)
                   ELSE s
         IN  _write_kinds(s1, i + 1, order, fail)

\* if self.table is not None: root.create_group("table"); write_table(...)
_write_table(s, fail) ==
    IF s.exc # "ok" \/ s.table = None THEN s
    ELSE LET s1 == create_group(s, "table")
         IN  IF s1.exc # "ok" THEN s1
             ELSE IF fail = <<"table", "table">>
             THEN Raise(s1, "IOError")
             ELSE SetRoot(s1, Put(Root(s1), "table",
                                  Put(Empty, "table", [data |-> s.table])))

\* mutant: the existence check is made before the check of the own location
write_existence_check_first(s, file_path, overwrite, order, fail) ==
    IF ~overwrite /\ StoreExists(s, file_path)
    THEN Raise(s, "AlreadyExists")
    ELSE IF is_backed(s) /\ s.path = file_path
    THEN Raise(s, "SelfOverwrite")
    ELSE LET s0 == [CreateStore(s, file_path) EXCEPT !.path = file_path]
             s1 == _write_table(_write_kinds(s0, 1, order, fail), fail)
         IN  IF s1.exc # "ok" THEN [s1 EXCEPT !.path = None] ELSE s1

\* mutant: path is assigned before the existence check
write_path_before_check(s, file_path, overwrite, order, fail) ==
    IF is_backed(s) /\ s.path = file_path
    THEN Raise(s, "SelfOverwrite")
    ELSE IF ~overwrite /\ StoreExists(s, file_path)
    THEN Raise([s EXCEPT !.path = file_path], "AlreadyExists")
    ELSE LET s0 == [CreateStore(s, file_path) EXCEPT !.path = file_path]
             s1 == _write_table(_write_kinds(s0, 1, order, fail), fail)
         IN  IF s1.exc # "ok" THEN [s1 EXCEPT !.path = None] ELSE s1

\* order: the insertion order of the names; fail: the element (or the table)
\* whose store write raises, NoFail when none does
write(s, file_path, overwrite, order, fail) ==
    IF is_backed(s) /\ s.path = file_path
    THEN Raise(s, "SelfOverwrite")
    ELSE IF ~overwrite /\ StoreExists(s, file_path)
    THEN Raise(s, "AlreadyExists")
    ELSE LET s0 == [CreateStore(s, file_path) EXCEPT !.path = file_path]
             s1 == _write_table(_write_kinds(s0, 1, order, fail), fail)
         IN  IF s1.exc # "ok" THEN [s1 EXCEPT !.path = None] ELSE s1

----------------------------------------------------------------------------
(* Transformations.  A transformation is a number; 0 stands for "no        *)
(* transformation metadata".                                               *)

Transformations == {1, 3}

NoTransformation == 0

\* a store group that require_group had to create: no payload, no metadata
EmptyGroup ==
    [data |-> 0, tr |-> NoTransformation, ndim |-> 0, ms |-> FALSE, ok |-> FALSE]

\* the body of the static method is its docstring: the element is returned
\* to the caller as it was passed
set_transformation_in_memory(element, transformation) == element

\* _get_transform(element): the transformation the element carries
get_transformation(element) == element.tr

\* a mutation of the object element is seen through every reference the
\* container holds to it
InPlace(mems, element, changed) ==
    [k \in KindSet |->
        [n \in DOMAIN mems[k] |-> IF mems[k][n] = element THEN changed ELSE mems[k][n]]]

\* mutant: the search compares the elements by value, not by identity
_find_element_by_value(mems, element) ==
    {kn \in KindSet \X Names :
        /\ kn[2] \in DOMAIN mems[kn[1]]
        /\ Content(mems[kn[1]][kn[2]]) = Content(element)}

\* the loop over the five collections: the keys whose entry satisfies
\* id(element_value) == id(element)
_find_element(mems, element) ==
    {kn \in KindSet \X Names :
        /\ kn[2] \in DOMAIN mems[kn[1]]
        /\ mems[kn[1]][kn[2]] = element}

\* root.require_group(element_type).require_group(name): both groups are
\* created when they are absent
_get_group_for_element(s, name, element_type) ==
    LET root == Root(s)
        group == IF element_type \in DOMAIN root THEN root[element_type] ELSE Empty
    IN  IF name \in DOMAIN group
        THEN SetRoot(s, Put(root, element_type, group))
        ELSE SetRoot(s, Put(root, element_type, Put(group, name, EmptyGroup)))

\* _overwrite_coordinate_transformations_raster / _non_raster: the
\* transformation metadata of the group is replaced
_overwrite_coordinate_transformations(s, element_type, name, transformation) ==
    SetRoot(s, [Root(s) EXCEPT ![element_type][name].tr = transformation])

\* mutant: the new transformation is added to the stored one
_set_transformation_on_disk_accumulating(s, key, element, transformation) ==
    LET s1 == _get_group_for_element(s, key[2], key[1])
    IN  IF key[1] \in Rasters /\ element.ms
        THEN Raise(s1, "NotImplementedError")
        ELSE _overwrite_coordinate_transformations(
                 s1, key[1], key[2], Root(s1)[key[1]][key[2]].tr + transformation)

\* mutant: the metadata of every group of the kind is rewritten
_set_transformation_on_disk_whole_kind(s, key, element, transformation) ==
    LET s1 == _get_group_for_element(s, key[2], key[1])
    IN  IF key[1] \in Rasters /\ element.ms
        THEN Raise(s1, "NotImplementedError")
        ELSE SetRoot(s1, [Root(s1) EXCEPT ![key[1]] =
                 [n \in DOMAIN Root(s1)[key[1]] |->
                     [Root(s1)[key[1]][n] EXCEPT !.tr = transformation]]])

\* mutant: a multiscale raster is written like a single-scale one
_set_transformation_on_disk_multiscale(s, key, element, transformation) ==
    LET s1 == _get_group_for_element(s, key[2], key[1])
    IN  _overwrite_coordinate_transformations(s1, key[1], key[2], transformation)

\* the branch "if self.path is not None" of set_transformation: key is the
\* (kind, name) the element was found under.  The elements of the raster
\* collections are SpatialImage or MultiscaleSpatialImage objects, those of
\* the other collections pa.Table, GeoDataFrame or AnnData objects
_set_transformation_on_disk(s, key, element, transformation) ==
    LET s1 == _get_group_for_element(s, key[2], key[1])
    IN  IF key[1] \in Rasters /\ element.ms
        THEN Raise(s1, "NotImplementedError")
        ELSE _overwrite_coordinate_transformations(s1, key[1], key[2], transformation)

\* mutant: no check that the element is found once; the last match is used
set_transformation_last_match(s, element, transformation) ==
    LET changed == set_transformation_in_memory(element, transformation)
        s1 == [s EXCEPT !.mem = InPlace(s.mem, element, changed)]
        found == _find_element(s1.mem, changed)
    IN  IF found = {} THEN Raise(s1, "NotFound")
        ELSE IF s1.path = None THEN s1
        ELSE LET key == CHOOSE kn \in found :
                            \A other \in found : other[2] = "b" => kn[2] = "b"
             IN  _set_transformation_on_disk(s1, key, changed, transformation)

set_transformation(s, element, transformation) ==
    LET changed == set_transformation_in_memory(element, transformation)
        s1 == [s EXCEPT !.mem = InPlace(s.mem, element, changed)]
        found == _find_element(s1.mem, changed)
    IN  IF found = {} THEN Raise(s1, "NotFound")
        ELSE IF Cardinality(found) > 1 THEN Raise(s1, "AmbiguousElement")
        ELSE IF s1.path = None THEN s1
        ELSE LET key == CHOOSE kn \in found : TRUE
             IN  _set_transformation_on_disk(s1, key, changed, transformation)

----------------------------------------------------------------------------
(* Queries.  The payload of a points element is the set of its rows, coded *)
(* in data: bit i of data says that the row Coords[i] is present.          *)

Axes == <<"x", "y">>

Coords == <<<<1, 1>>, <<6, 6>>, <<5, 5>>, <<1, 6>>>>

Rows(data) ==
    {Coords[i] : i \in {j \in 1..Len(Coords) : (data \div (2 ^ (j - 1))) % 2 = 1}}

RECURSIVE CodeUpTo(_, _)
CodeUpTo(i, rows) ==
    IF i = 0 THEN 0
    ELSE CodeUpTo(i - 1, rows) + (IF Coords[i] \in rows THEN 2 ^ (i - 1) ELSE 0)

Code(rows) == CodeUpTo(Len(Coords), rows)

\* BoundingBoxRequest: bounds min and max on the axes named
BoundingBoxRequest(axes, min, max) ==
    [axes |-> axes, min |-> min, max |-> max, type |-> "BoundingBoxRequest"]

\* a request of another class
OtherRequest == [axes |-> {}, min |-> 0, max |-> 0, type |-> "BaseSpatialRequest"]

NoRequest == [axes |-> {}, min |-> 0, max |-> 0, type |-> "-"]

\* a row lies in the box: min <= coordinate <= max on every requested axis
InBox(row, request) ==
    \A i \in 1..Len(Axes) :
        Axes[i] \in request.axes => (request.min <= row[i] /\ row[i] <= request.max)

\* the rows of one points element that lie in the box, as a new table
_bounding_box_query_points(points, name, request) ==
    [points EXCEPT !.id = IF name = "a" THEN 7 ELSE 8,
                   !.data = Code({row \in Rows(points.data) : InBox(row, request)}),
                   !.from = InMemory]

\* elements without a surviving row are left out of the result
_bounding_box_query_points_dict(points_dict, request) ==
    LET kept == {n \in DOMAIN points_dict :
                    Rows(_bounding_box_query_points(points_dict[n], n, request).data) # {}}
    IN  [n \in kept |-> _bounding_box_query_points(points_dict[n], n, request)]

\* what a call gives back: the container returned, if one is
NoResult ==
    [mem |-> [k \in KindSet |-> Empty], table |-> None, path |-> None,
     exc |-> "ok", returned |-> FALSE]

RECURSIVE _add_all_points(_, _, _)
_add_all_points(coll, points, names) ==
    IF names = {} THEN [exc |-> "ok", coll |-> coll]
    ELSE LET n == CHOOSE x \in names : TRUE
             r == _add_points_in_memory(coll, n, points[n], FALSE)
         IN  IF r.exc # "ok" THEN r
             ELSE _add_all_points(r.coll, points, names \ {n})

\* SpatialData(points=points): self.path = None, the four other collections
\* empty, every points element added through _add_points_in_memory
SpatialData_from_points(points) ==
    LET r == _add_all_points(Empty, points, DOMAIN points)
    IN  IF r.exc # "ok"
        THEN [NoResult EXCEPT !.exc = r.exc]
        ELSE [mem |-> [k \in KindSet |-> IF k = "points" THEN r.coll ELSE Empty],
              table |-> None,
              path |-> None, exc |-> "ok", returned |-> TRUE]

\* mutant: the new container takes over the backing path of the source
bounding_box_keeping_path(s, request) ==
    [SpatialData_from_points(_bounding_box_query_points_dict(s.mem["points"], request))
        EXCEPT !.path = s.path]

\* mutant: the points of the source are handed over unfiltered
bounding_box_unfiltered(s, request) ==
    SpatialData_from_points(s.mem["points"])

bounding_box(s, request) ==
    SpatialData_from_points(_bounding_box_query_points_dict(s.mem["points"], request))

\* mutant: every request is answered as a bounding-box request
QueryManager_call_any(s, request) == bounding_box(s, request)

\* QueryManager.__call__
QueryManager_call(s, request) ==
    IF request.type = "BoundingBoxRequest"
    THEN bounding_box(s, request)
    ELSE [NoResult EXCEPT !.exc = "UnsupportedRequest"]

----------------------------------------------------------------------------
(* The constructor and the dictionary objects.  A dictionary is an object: *)
(* heap[o][k] is the dictionary of kind k that owner o created, owner      *)
(* Passed being the caller who builds the arguments; refs[c][k] names the  *)
(* owner of the object that self._<k> of container c refers to.            *)

Owners == {1, 2}

Passed == 0

NoDicts ==
    [exc |-> "ok",
     heap |-> [o \in Owners \cup {Passed} |-> [k \in KindSet |-> Empty]],
     refs |-> [c \in Owners |-> [k \in KindSet |-> c]],
     built |-> {}, given |-> {}, actor |-> Passed]

\* what self._<kind> of container c holds
View(d, c) == [k \in KindSet |-> d.heap[d.refs[c][k]][k]]

_add_in_memory(kind, coll, name, element) ==
    CASE kind = "images"   -> _add_image_in_memory(coll, name, element, FALSE)
      [] kind = "labels"   -> _add_labels_in_memory(coll, name, element, FALSE)
      [] kind = "points"   -> _add_points_in_memory(coll, name, element, FALSE)
      [] kind = "polygons" -> _add_polygons_in_memory(coll, name, element, FALSE)
      [] kind = "shapes"   -> _add_shapes_in_memory(coll, name, element, FALSE)

\* for k, v in <kind>.items(): self._add_<kind>_in_memory(name=k, <kind>=v)
RECURSIVE _add_all(_, _, _, _)
_add_all(kind, coll, input, names) ==
    IF names = {} THEN [exc |-> "ok", coll |-> coll]
    ELSE LET n == CHOOSE x \in names : TRUE
             r == _add_in_memory(kind, coll, n, input[n])
         IN  IF r.exc # "ok" THEN r
             ELSE _add_all(kind, r.coll, input, names \ {n})

\* mutant: the container keeps the dictionaries it was given
SpatialData_init_keeping_dicts(d, c, given) ==
    [d EXCEPT !.heap[c] = [k \in KindSet |-> Empty],
              !.refs[c] = [k \in KindSet |-> IF given THEN Passed ELSE c],
              !.built = @ \cup {c},
              !.given = IF given THEN @ \cup {c} ELSE @,
              !.actor = c, !.exc = "ok"]

\* SpatialData.__init__ of container c: given = TRUE when the caller's
\* dictionaries are passed, FALSE for the default arguments (empty
\* MappingProxyType objects).  Every argument is not None, so every
\* self._<kind> is assigned a new {} and filled item by item.
SpatialData_init(d, c, given) ==
    LET input == IF given THEN d.heap[Passed] ELSE [k \in KindSet |-> Empty]
        r == [k \in KindSet |-> _add_all(k, Empty, input[k], DOMAIN input[k])]
    IN  IF \E k \in KindSet : r[k].exc # "ok"
        THEN [d EXCEPT !.actor = c,
                       !.exc = r[CHOOSE k \in KindSet : r[k].exc # "ok"].exc]
        ELSE [d EXCEPT !.heap[c] = [k \in KindSet |-> r[k].coll],
                       !.refs[c] = [k \in KindSet |-> c],
                       !.built = @ \cup {c},
                       !.given = IF given THEN @ \cup {c} ELSE @,
                       !.actor = c, !.exc = "ok"]

----------------------------------------------------------------------------
(* The summary view.                                                       *)

\* the attributes that are set and hold something
_non_empty_elements(s) ==
    {k \in KindSet : DOMAIN s.mem[k] # {}}
        \cup (IF s.table # None THEN {"table"} ELSE {})

\* __repr__: one line per element of each non-empty attribute; the text is
\* built from what the collections hold and nothing is assigned
_gen_repr(s) ==
    {e \in KindSet \X Names :
        e[1] \in _non_empty_elements(s) /\ e[2] \in DOMAIN s.mem[e[1]]}
        \cup (IF "table" \in _non_empty_elements(s)
              THEN {<<"table", "table">>}
              ELSE {})

----------------------------------------------------------------------------
(* The state machine: one action per public call.                          *)

NoFail == <<"-", "-">>

NoParse == [call |-> "-"]

Orders == {<<"a", "b">>, <<"b", "a">>}

Self == [mem |-> mem, table |-> table, path |-> path, store |-> store, exc |-> "ok"]

NoElement ==
    [id |-> 0, data |-> 0, tr |-> 0, ndim |-> 0, ms |-> FALSE, ok |-> FALSE,
     from |-> InMemory]

\* the container becomes s and last records the call; held says that the
\* collection held the name before the call, again that the call repeats
\* the set_transformation call made just before it
Apply(s, op, kind, name, element, overwrite, loc, transformation) ==
    /\ mem' = s.mem
    /\ table' = s.table
    /\ path' = s.path
    /\ store' = s.store
    /\ last' = [loc |-> loc, kind |-> kind, name |-> name, exc |-> s.exc,
                element |-> element, overwrite |-> overwrite,
                transformation |-> transformation,
                request |-> NoRequest,
                op |-> op, held |-> kind \in KindSet /\ name \in DOMAIN mem[kind],
                result |-> NoResult,
                again |-> /\ op = "set_transformation"
                          /\ last.op = op
                          /\ last.element = element
                          /\ last.transformation = transformation,
                view |-> {}]
    /\ calls' = calls + 1
    /\ UNCHANGED <<focus, parsed, dicts>>

\* a query: the container stays as it is, last records the request and the
\* container returned
Answer(op, request, result) ==
    /\ UNCHANGED <<mem, table, path, store, focus, parsed, dicts>>
    /\ last' = [loc |-> None, kind |-> "-", name |-> NoName, exc |-> result.exc,
                element |-> NoElement, overwrite |-> FALSE,
                transformation |-> NoTransformation, request |-> request,
                op |-> op, held |-> FALSE,
                result |-> [result EXCEPT !.exc = "ok"], again |-> FALSE, view |-> {}]
    /\ calls' = calls + 1

Become(s, op, kind, name, element, overwrite, loc) ==
    Apply(s, op, kind, name, element, overwrite, loc, NoTransformation)

\* SpatialData(images=..., labels=..., points=..., polygons=..., shapes=..., table=...)
\* with valid elements, every input passing _add_<kind>_in_memory: the
\* collection of kind f holds the names S, and in a full container every other
\* collection holds one element and the table is set
InitInput(f, S, full) ==
    [k \in KindSet |-> IF k = f THEN [n \in S |-> InitElement(k, n)]
                       ELSE IF full THEN [n \in {"a"} |-> InitElement(k, n)]
                       ELSE Empty]

\* the same call with one object passed under both names of kind f, as in
\* SpatialData(points={"a": p, "b": p})
AliasedInput(f, full) ==
    [InitInput(f, Names, full) EXCEPT ![f] = [n \in Names |-> InitElement(f, "a")]]

Init ==
    /\ focus \in KindSet
    /\ \E S \in SUBSET Names, full \in BOOLEAN, aliased \in BOOLEAN :
          /\ aliased => S = Names
          /\ mem = IF aliased THEN AliasedInput(focus, full)
                   ELSE InitInput(focus, S, full)
          /\ table = IF full THEN TheTable ELSE None
    /\ path = None
    /\ store = [l \in Locs |-> NoStore]
    /\ last = [loc |-> None, kind |-> "-", name |-> NoName, exc |-> "ok",
               element |-> NoElement, overwrite |-> FALSE,
               transformation |-> NoTransformation, request |-> NoRequest,
               op |-> "init", held |-> FALSE,
               result |-> NoResult, again |-> FALSE, view |-> {}]
    /\ calls = 0
    /\ parsed = NoParse
    /\ dicts = NoDicts

IoOutcomes == IF path # None THEN BOOLEAN ELSE {TRUE}

AddImage ==
    /\ calls < MaxCalls /\ focus = "images"
    /\ \E name \in Names, image \in UserElements("images"), overwrite \in BOOLEAN,
          io \in IoOutcomes :
          Become(add_image(Self, name, image, overwrite, TRUE, io),
                 "add", "images", name, image, overwrite, None)

AddLabels ==
    /\ calls < MaxCalls /\ focus = "labels"
    /\ \E name \in Names, labels \in UserElements("labels"), overwrite \in BOOLEAN,
          io \in IoOutcomes :
          Become(add_labels(Self, name, labels, overwrite, TRUE, io),
                 "add", "labels", name, labels, overwrite, None)

AddPoints ==
    /\ calls < MaxCalls /\ focus = "points"
    /\ \E name \in Names, points \in UserElements("points"), overwrite \in BOOLEAN,
          io \in IoOutcomes :
          Become(add_points(Self, name, points, overwrite, TRUE, io),
                 "add", "points", name, points, overwrite, None)

AddPolygons ==
    /\ calls < MaxCalls /\ focus = "polygons"
    /\ \E name \in Names, polygons \in UserElements("polygons"), overwrite \in BOOLEAN,
          io \in IoOutcomes :
          Become(add_polygons(Self, name, polygons, overwrite, TRUE, io),
                 "add", "polygons", name, polygons, overwrite, None)

AddShapes ==
    /\ calls < MaxCalls /\ focus = "shapes"
    /\ \E name \in Names, shapes \in UserElements("shapes"), overwrite \in BOOLEAN,
          io \in IoOutcomes :
          Become(add_shapes(Self, name, shapes, overwrite, TRUE, io),
                 "add", "shapes", name, shapes, overwrite, None)

\* the store writes of a write() call at which a failure is injected: one
\* per element of the kind in focus, one for the table
FailPoints ==
    {NoFail} \cup {<<focus, n>> : n \in Names}
             \cup {<<"table", "table">>}

Happens(fail, file_path, overwrite) ==
    /\ path # file_path
    /\ overwrite \/ ~store[file_path].exists
    /\ IF fail[1] = "table" THEN table # None ELSE fail[2] \in DOMAIN mem[fail[1]]

\* the insertion order matters to a failing write() only in the collection
\* of the element that fails
OrdersFor(fail) ==
    IF fail # NoFail /\ fail[1] # "table" /\ Cardinality(DOMAIN mem[fail[1]]) > 1
    THEN Orders
    ELSE {<<"a", "b">>}

Write ==
    /\ calls < MaxCalls
    /\ \E file_path \in Locs, overwrite \in BOOLEAN, fail \in FailPoints :
          /\ fail # NoFail => Happens(fail, file_path, overwrite)
          /\ \E order \in OrdersFor(fail) :
                Become(write(Self, file_path, overwrite, order, fail),
                       "write", "-", NoName, NoElement, overwrite, file_path)

\* the elements a caller holds for set_transformation: the entries of the
\* collection and the two objects the constructor may have been given
Targets(kind) ==
    {mem[kind][n] : n \in DOMAIN mem[kind]}
        \cup {InitElement(kind, n) : n \in Names}

SetTransformationInMemory ==
    /\ calls < MaxCalls
    /\ \E element \in {mem[focus][n] : n \in DOMAIN mem[focus]},
          transformation \in Transformations :
          LET changed == set_transformation_in_memory(element, transformation)
          IN  Apply([Self EXCEPT !.mem = InPlace(mem, element, changed)],
                    "set_transformation_in_memory", focus, NoName, element,
                    FALSE, None, transformation)

SetTransformation ==
    /\ calls < MaxCalls
    /\ \E element \in Targets(focus), transformation \in Transformations :
          Apply(set_transformation(Self, element, transformation),
                "set_transformation", focus, NoName, element, FALSE, None,
                transformation)

\* SpatialData.get_transformation(element): a static method, it is given
\* the element and not the container
GetTransformation ==
    /\ calls < MaxCalls
    /\ \E element \in Targets(focus) :
          Apply(Self, "get_transformation", focus, NoName, element, FALSE,
                None, get_transformation(element))

\* repr(sdata)
Summary ==
    /\ calls < MaxCalls
    /\ UNCHANGED <<mem, table, path, store, focus, parsed, dicts>>
    /\ last' = [loc |-> None, kind |-> "-", name |-> NoName,
                exc |-> "ok", element |-> NoElement, overwrite |-> FALSE,
                transformation |-> NoTransformation, request |-> NoRequest,
                op |-> "repr", held |-> FALSE,
                result |-> NoResult, again |-> FALSE, view |-> _gen_repr(Self)]
    /\ calls' = calls + 1

\* the requests of the calls: the box x, y in [0, 5], the line x = 6, and a
\* request that is no bounding box
Requests ==
    {BoundingBoxRequest({"x", "y"}, 0, 5), BoundingBoxRequest({"x"}, 6, 6)}

BoundingBox ==
    /\ calls < MaxCalls /\ focus = "points"
    /\ \E request \in Requests :
          Answer("bounding_box", request, bounding_box(Self, request))

Query ==
    /\ calls < MaxCalls /\ focus = "points"
    /\ \E request \in {BoundingBoxRequest({"x", "y"}, 0, 5), OtherRequest} :
          Answer("query", request, QueryManager_call(Self, request))

Next ==
    \/ AddImage
    \/ AddLabels
    \/ AddPoints
    \/ AddPolygons
    \/ AddShapes
    \/ Write
    \/ SetTransformationInMemory
    \/ SetTransformation
    \/ GetTransformation
    \/ Summary
    \/ BoundingBox
    \/ Query

Spec == Init /\ [][Next]_vars

----------------------------------------------------------------------------
(* Rasters of every number of axes: the constructor followed by add_image  *)
(* or add_labels calls with elements of 1 .. MaxNdim axes that conform or  *)
(* do not conform to the schema of their number of axes.                   *)

MaxNdim == 5

MaxAxesCalls == 2

AxesElement(ndim, ok) ==
    [id |-> 6, data |-> 2, tr |-> 2, ndim |-> ndim, ms |-> FALSE, ok |-> ok,
     from |-> InMemory]

AddImageOfAxes ==
    /\ calls < MaxAxesCalls /\ focus = "images"
    /\ \E name \in Names, ndim \in 1..MaxNdim, ok \in BOOLEAN, overwrite \in BOOLEAN :
          Become(add_image(Self, name, AxesElement(ndim, ok), overwrite, TRUE, TRUE),
                 "add", "images", name, AxesElement(ndim, ok), overwrite, None)

AddLabelsOfAxes ==
    /\ calls < MaxAxesCalls /\ focus = "labels"
    /\ \E name \in Names, ndim \in 1..MaxNdim, ok \in BOOLEAN, overwrite \in BOOLEAN :
          Become(add_labels(Self, name, AxesElement(ndim, ok), overwrite, TRUE, TRUE),
                 "add", "labels", name, AxesElement(ndim, ok), overwrite, None)

NextAxes ==
    \/ AddImageOfAxes
    \/ AddLabelsOfAxes

InitAxes == Init /\ focus \in Rasters

SpecAxes == InitAxes /\ [][NextAxes]_vars

----------------------------------------------------------------------------
(* Bounding-box queries over points of every row set: the constructor      *)
(* given points elements with any subset of the rows Coords, followed by   *)
(* bounding_box calls with boxes over each set of axes.                    *)

MaxQueries == 1

QueryBounds == {0, 1, 5, 6}

PointsOfRows(name, data) == [InitElement("points", name) EXCEPT !.data = data]

InitQuery ==
    /\ focus = "points"
    /\ \E S \in SUBSET Names :
          \E data \in [S -> 0..(2 ^ Len(Coords) - 1)] :
              mem = [k \in KindSet |-> IF k = "points"
                                       THEN [n \in S |-> PointsOfRows(n, data[n])]
                                       ELSE Empty]
    /\ table = None
    /\ path = None
    /\ store = [l \in Locs |-> NoStore]
    /\ last = [loc |-> None, kind |-> "-", name |-> NoName, exc |-> "ok",
               element |-> NoElement, overwrite |-> FALSE,
               transformation |-> NoTransformation, request |-> NoRequest,
               op |-> "init", held |-> FALSE,
               result |-> NoResult, again |-> FALSE, view |-> {}]
    /\ calls = 0
    /\ parsed = NoParse
    /\ dicts = NoDicts

BoundingBoxOfRows ==
    /\ calls < MaxQueries
    /\ \E axes \in (SUBSET {"x", "y"}) \ {{}}, min \in QueryBounds, max \in QueryBounds :
          /\ min <= max
          /\ Answer("bounding_box", BoundingBoxRequest(axes, min, max),
                    bounding_box(Self, BoundingBoxRequest(axes, min, max)))

NextQuery == BoundingBoxOfRows

SpecQuery == InitQuery /\ [][NextQuery]_vars

----------------------------------------------------------------------------
(* The accessors images, labels, points, polygons and shapes: each         *)
(* property returns self._<kind>, the dict the container itself works on,  *)
(* so that an assignment or a deletion on the mapping returned is one on   *)
(* the collection.                                                         *)

\* sdata.<kind>[name] = element
accessor_setitem(s, kind, name, element) ==
    [s EXCEPT !.mem[kind] = Put(s.mem[kind], name, element)]

\* del sdata.<kind>[name]
accessor_delitem(s, kind, name) ==
    IF name \in DOMAIN s.mem[kind]
    THEN [s EXCEPT !.mem[kind] = Del(s.mem[kind], name)]
    ELSE Raise(s, "KeyError")

SetItem ==
    /\ calls < MaxCalls
    /\ \E name \in Names, element \in UserElements(focus) :
          Become(accessor_setitem(Self, focus, name, element),
                 "setitem", focus, name, element, FALSE, None)

DelItem ==
    /\ calls < MaxCalls
    /\ \E name \in Names :
          Become(accessor_delitem(Self, focus, name),
                 "delitem", focus, name, NoElement, FALSE, None)

NextAccessors ==
    \/ SetItem
    \/ DelItem

SpecAccessors == Init /\ [][NextAccessors]_vars

----------------------------------------------------------------------------
(* The parsers of the models (TableModel, ShapesModel, and the transform   *)
(* argument every parser takes), as the tests use them.                    *)

MaxRegionLen == 3

MaxShapeRows == 2

MaxParses == 2

RegionValues == {1, 2, 3}

\* the transformation a parser attaches when it is given none
Identity == 4

Values(seq) == {seq[i] : i \in DOMAIN seq}

RECURSIVE FirstSeen(_)
FirstSeen(seq) ==
    IF seq = <<>> THEN <<>>
    ELSE LET rest == FirstSeen(SubSeq(seq, 1, Len(seq) - 1))
         IN  IF seq[Len(seq)] \in Values(rest) THEN rest
             ELSE Append(rest, seq[Len(seq)])

RECURSIVE Sorted(_)
Sorted(S) ==
    IF S = {} THEN <<>>
    ELSE LET least == CHOOSE x \in S : \A y \in S : x <= y
         IN  <<least>> \o Sorted(S \ {least})

\* pandas.Categorical(column): the categories and, per row, the index of
\* its category
Categorical(column, categories) ==
    [categories |-> categories,
     codes |-> [i \in DOMAIN column |->
                   CHOOSE j \in DOMAIN categories : categories[j] = column[i]]]

\* mutant: the categories are kept in the order of their first appearance
TableModel_parse_first_seen(column, region, region_key, instance_key) ==
    [obs |-> Categorical(column, FirstSeen(column)),
     uns |-> [region |-> region, region_key |-> region_key,
              instance_key |-> instance_key]]

\* TableModel.parse(adata, region=[...], region_key=..., instance_key=...):
\* column is adata.obs[region_key]
TableModel_parse(column, region, region_key, instance_key) ==
    [obs |-> Categorical(column, Sorted(Values(column))),
     uns |-> [region |-> region, region_key |-> region_key,
              instance_key |-> instance_key]]

\* the shape_size argument: absent, one number, or one number per row
NoSize == [form |-> "none", value |-> 0, values |-> <<>>]

ScalarSize(value) == [form |-> "scalar", value |-> value, values |-> <<>>]

VectorSize(values) == [form |-> "vector", value |-> 0, values |-> values]

\* mutant: a missing shape type is recorded as Square
ShapesModel_parse_square(coords, shape_type, shape_size) ==
    [uns |-> [type |-> IF shape_type = None THEN "Square" ELSE shape_type,
              transform |-> Identity],
     obsm |-> coords,
     obs_size |-> [i \in DOMAIN coords |->
                      IF shape_size.form = "vector" THEN shape_size.values[i]
                      ELSE IF shape_size.form = "scalar" THEN shape_size.value
                      ELSE 1]]

\* ShapesModel.parse(coords, shape_type, shape_size)
ShapesModel_parse(coords, shape_type, shape_size) ==
    [uns |-> [type |-> IF shape_type = None THEN "Circle" ELSE shape_type,
              transform |-> Identity],
     obsm |-> coords,
     obs_size |-> [i \in DOMAIN coords |->
                      IF shape_size.form = "vector" THEN shape_size.values[i]
                      ELSE IF shape_size.form = "scalar" THEN shape_size.value
                      ELSE 1]]

\* <Model>.parse(element, transform=transform), as far as the
\* transformation goes; transform = NoTransformation is a call without it
parse_transform(element, transform) ==
    IF get_transformation(element) # NoTransformation /\ transform # NoTransformation
    THEN [tr |-> NoTransformation, exc |-> "ValueError"]
    ELSE IF transform # NoTransformation
    THEN [tr |-> transform, exc |-> "ok"]
    ELSE IF get_transformation(element) # NoTransformation
    THEN [tr |-> get_transformation(element), exc |-> "ok"]
    ELSE [tr |-> Identity, exc |-> "ok"]

Regions == UNION {[1..n -> RegionValues] : n \in 0..MaxRegionLen}

InitModels ==
    /\ focus = "shapes"
    /\ mem = [k \in KindSet |-> Empty]
    /\ table = None
    /\ path = None
    /\ store = [l \in Locs |-> NoStore]
    /\ last = [loc |-> None, kind |-> "-", name |-> NoName, exc |-> "ok",
               element |-> NoElement, overwrite |-> FALSE,
               transformation |-> NoTransformation, request |-> NoRequest,
               op |-> "init", held |-> FALSE,
               result |-> NoResult, again |-> FALSE, view |-> {}]
    /\ calls = 0
    /\ parsed = NoParse
    /\ dicts = NoDicts

Parsed(p) ==
    /\ calls < MaxParses
    /\ parsed' = p
    /\ calls' = calls + 1
    /\ UNCHANGED <<mem, table, path, store, last, focus, dicts>>

ParseTable ==
    \E region \in Regions :
        Parsed([call |-> "TableModel.parse", region |-> region, region_key |-> "reg",
                out |-> TableModel_parse(region, region, "reg", "A")])

ParseShapes ==
    \E n \in 1..MaxShapeRows, shape_type \in {None, "Circle", "Square"} :
        \E coords \in [1..n -> {<<1, 1>>, <<5, 5>>}],
           shape_size \in {NoSize, ScalarSize(3), VectorSize([i \in 1..n |-> i])} :
            Parsed([call |-> "ShapesModel.parse", coords |-> coords,
                    shape_type |-> shape_type, shape_size |-> shape_size,
                    out |-> ShapesModel_parse(coords, shape_type, shape_size)])

\* an element as it is handed to a parser: it carries the transformation tr
\* or none
Unparsed(tr) == [NoElement EXCEPT !.tr = tr, !.ok = TRUE]

\* the three ways the tests attach a transformation: parse(e, transform=t);
\* set_transformation_in_memory(e, t) and parse(e); and both
ParseTransformed ==
    \E model \in {"Image2DModel", "Labels2DModel", "PolygonsModel", "ShapesModel"},
       tr \in {NoTransformation} \cup Transformations,
       transform \in Transformations :
        LET element == Unparsed(tr)
            changed == set_transformation_in_memory(element, transform)
        IN  Parsed([element |-> element, call |-> "parse with transform",
                    transform |-> transform, model |-> model,
                    direct |-> parse_transform(element, transform),
                    after_set |-> parse_transform(changed, NoTransformation)])

NextModels ==
    \/ ParseTable
    \/ ParseShapes
    \/ ParseTransformed

SpecModels == InitModels /\ [][NextModels]_vars

----------------------------------------------------------------------------
(* Two containers built side by side, from the same dictionaries or from   *)
(* the default arguments, and the adds made on each.                       *)

MaxOwnerCalls == 3

InitOwners ==
    /\ focus \in KindSet
    /\ mem = [k \in KindSet |-> Empty]
    /\ table = None
    /\ path = None
    /\ store = [l \in Locs |-> NoStore]
    /\ last = [loc |-> None, kind |-> "-", name |-> NoName, exc |-> "ok",
               element |-> NoElement, overwrite |-> FALSE,
               transformation |-> NoTransformation, request |-> NoRequest,
               op |-> "init", held |-> FALSE,
               result |-> NoResult, again |-> FALSE, view |-> {}]
    /\ calls = 0
    /\ parsed = NoParse
    /\ \E S \in SUBSET Names, full \in BOOLEAN :
          dicts = [NoDicts EXCEPT !.heap[Passed] = InitInput(focus, S, full)]

\* the record of a call on one of the two containers
OwnerCall(op, name, element, overwrite, exc) ==
    [loc |-> None, kind |-> focus, name |-> name, exc |-> exc,
     element |-> element, overwrite |-> overwrite,
     transformation |-> NoTransformation, request |-> NoRequest,
     op |-> op, held |-> FALSE,
     result |-> NoResult, again |-> FALSE, view |-> {}]

\* sdata_c = SpatialData(images=images, ..., shapes=shapes) or SpatialData()
Construct ==
    /\ calls < MaxOwnerCalls
    /\ \E c \in Owners \ dicts.built, given \in BOOLEAN :
          /\ dicts' = SpatialData_init(dicts, c, given)
          /\ last' = OwnerCall("new", NoName, NoElement, FALSE, dicts'.exc)
    /\ calls' = calls + 1
    /\ UNCHANGED <<mem, table, path, store, focus, parsed>>

add_kind(s, kind, name, element, overwrite) ==
    CASE kind = "images"   -> add_image(s, name, element, overwrite, TRUE, TRUE)
      [] kind = "labels"   -> add_labels(s, name, element, overwrite, TRUE, TRUE)
      [] kind = "points"   -> add_points(s, name, element, overwrite, TRUE, TRUE)
      [] kind = "polygons" -> add_polygons(s, name, element, overwrite, TRUE, TRUE)
      [] kind = "shapes"   -> add_shapes(s, name, element, overwrite, TRUE, TRUE)

\* sdata_c.add_<kind>(name, element, overwrite) on an unbacked container: the
\* dictionary self._<kind> refers to is changed in place
AddTo ==
    /\ calls < MaxOwnerCalls
    /\ \E c \in dicts.built, name \in Names, element \in UserElements(focus),
          overwrite \in BOOLEAN :
          LET s == [mem |-> View(dicts, c), table |-> None, path |-> None,
                    store |-> store, exc |-> "ok"]
              s1 == add_kind(s, focus, name, element, overwrite)
          IN  /\ dicts' = [dicts EXCEPT !.heap[dicts.refs[c][focus]][focus] =
                                            s1.mem[focus],
                                        !.actor = c, !.exc = s1.exc]
              /\ last' = OwnerCall("add", name, element, overwrite, s1.exc)
    /\ calls' = calls + 1
    /\ UNCHANGED <<mem, table, path, store, focus, parsed>>

NextOwners ==
    \/ Construct
    \/ AddTo

SpecOwners == InitOwners /\ [][NextOwners]_vars

----------------------------------------------------------------------------
(* Properties.  last describes the call that led to the current state; in  *)
(* an action property last' describes the call the step makes, and the     *)
(* unprimed variables are the state before the call.                       *)

container == <<mem, table, path, store>>

\* the names persisted in the store at loc for a kind
StoreNames(st, loc, kind) ==
    IF kind \in DOMAIN st[loc].root THEN DOMAIN st[loc].root[kind] ELSE {}

Place(loc, kind, name) == [loc |-> loc, kind |-> kind, name |-> name]

ValidationErrors == {"SchemaViolation", "UnsupportedShape"}

\* the kinds add_<kind> reloads from the store after writing
Reloaded == {"labels", "points", "images"}

\* C1: for a backed container, after any add_<kind> call has returned or
\* raised, the names held in memory for each kind are the names persisted
\* in the store for that kind.
C1_MemoryNamesAreStoreNames ==
    (last.op = "add" /\ path # None) =>
        \A k \in KindSet : DOMAIN mem[k] = StoreNames(store, path, k)

\* C2: if write(location) fails while persisting an element, then after the
\* call path is unset and every collection holds the same element objects
\* as before the call.
C2_FailedWriteRestoresMemory ==
    [][(last'.op = "write" /\ last'.exc = "IOError") =>
          (path' = None /\ mem' = mem)]_vars

\* C3: an add of an element that fails validation raises and leaves the
\* collections as before the call, with overwrite=false and overwrite=true.
C3_InvalidAddChangesNothing ==
    [][(last'.op = "add" /\ last'.exc \in ValidationErrors) => mem' = mem]_vars

\* C4: add(name, e) with overwrite=false, when name is already in the
\* collection of the kind, fails with DuplicateName and changes neither the
\* entry under name, nor any other entry, nor the store.
C4_DuplicateNameRejected ==
    [][(/\ last'.op = "add"
        /\ ~last'.overwrite
        /\ last'.name \in DOMAIN mem[last'.kind]) =>
          (last'.exc = "DuplicateName" /\ UNCHANGED container)]_vars

C4_Witness ==
    /\ last.op = "add" /\ last.exc = "DuplicateName"
    /\ path # None
    /\ last.name \in StoreNames(store, path, last.kind)

\* C5: once path is set it stays set, whatever call follows.
C5_BackedStaysBacked == [][path # None => path' # None]_vars

\* C6: after write(location) succeeds on an unbacked container to a fresh
\* location, path is the location and the store there holds, for each kind,
\* exactly the names held in memory, each with the content and the
\* transformation of the element held before the call, and the table if
\* one is set.
C6_WriteRoundTrip ==
    [][(/\ last'.op = "write" /\ last'.exc = "ok"
        /\ path = None
        /\ ~store[last'.loc].exists) =>
          LET root == store'[last'.loc].root
          IN  /\ path' = last'.loc
              /\ store'[last'.loc].exists
              /\ \A k \in KindSet :
                    /\ StoreNames(store', last'.loc, k) = DOMAIN mem[k]
                    /\ DOMAIN mem'[k] = DOMAIN mem[k]
                    /\ \A n \in DOMAIN mem[k] :
                          /\ root[k][n] = Content(mem[k][n])
                          /\ Content(mem'[k][n]) = Content(mem[k][n])
              /\ table' = table
              /\ IF table = None
                 THEN "table" \notin DOMAIN root
                 ELSE "table" \in DOMAIN root /\ root["table"]["table"].data = table
              /\ DOMAIN root \subseteq KindSet \cup {"table"}]_vars

C6_Witness ==
    /\ calls = 1
    /\ last.op = "write" /\ last.exc = "ok"
    /\ \A k \in KindSet : DOMAIN mem[k] # {}
    /\ Cardinality(DOMAIN mem["shapes"]) = 2
    /\ table # None

C8_SelfOverwriteRejected ==
    [][(last'.op = "write" /\ path # None /\ last'.loc = path) =>
          (last'.exc = "SelfOverwrite" /\ UNCHANGED container)]_vars

C8_Witness ==
    /\ last.op = "write" /\ last.exc = "SelfOverwrite"
    /\ ~last.overwrite
    /\ store[last.loc].exists

\* C9 as claimed: write(location, overwrite=false) to a location where a
\* store exists fails with AlreadyExists and changes neither path, nor the
\* store, nor a collection.
C9_ExistingStoreRejected ==
    [][(last'.op = "write" /\ ~last'.overwrite /\ store[last'.loc].exists) =>
          (last'.exc = "AlreadyExists" /\ UNCHANGED container)]_vars

\* C9 as amended: the same, for a location other than the one the container
\* is backed at (there the call fails with SelfOverwrite first).
C9_OtherExistingStoreRejected ==
    [][(/\ last'.op = "write" /\ ~last'.overwrite
        /\ store[last'.loc].exists
        /\ path # last'.loc) =>
          (last'.exc = "AlreadyExists" /\ UNCHANGED container)]_vars

C9_Witness ==
    /\ last.op = "write" /\ last.exc = "AlreadyExists"
    /\ path = None
    /\ store[last.loc].exists

----------------------------------------------------------------------------
(* set_transformation and get_transformation.                              *)

\* the (kind, name) keys under which the container holds the object element
Registered(mems, element) ==
    {kn \in KindSet \X Names :
        kn[2] \in DOMAIN mems[kn[1]] /\ mems[kn[1]][kn[2]] = element}

\* the transformation metadata the store at loc holds for an element; none
\* when it holds no group for it
StoredTransformation(st, loc, kind, name) ==
    IF name \in StoreNames(st, loc, kind)
    THEN st[loc].root[kind][name].tr
    ELSE NoTransformation

\* C11: after set_transformation(e, t) has succeeded on an element held
\* under exactly one key, and after set_transformation_in_memory(e, t),
\* get_transformation(e) is t.
C11_TransformationIsSet ==
    [][(\/ last'.op = "set_transformation_in_memory"
        \/ last'.op = "set_transformation" /\ last'.exc = "ok") =>
          \A kn \in Registered(mem, last'.element) :
              get_transformation(mem'[kn[1]][kn[2]]) = last'.transformation]_vars

\* C12: a set_transformation(e, t) call that repeats a successful
\* set_transformation(e, t) on an element held under exactly one key
\* succeeds and changes nothing: collections, table, path, store and the
\* transformation read from e are as the first call left them.
C12_SetTransformationIdempotent ==
    [][(/\ last'.op = "set_transformation" /\ last'.again
        /\ last.exc = "ok"
        /\ Cardinality(Registered(mem, last'.element)) = 1) =>
          /\ last'.exc = "ok"
          /\ UNCHANGED container
          /\ \A kn \in Registered(mem, last'.element) :
                get_transformation(mem'[kn[1]][kn[2]])
                    = get_transformation(mem[kn[1]][kn[2]])]_vars

C12_Witness ==
    /\ last.op = "set_transformation" /\ last.again /\ last.exc = "ok"
    /\ path # None
    /\ \E kn \in Registered(mem, last.element) :
          /\ StoredTransformation(store, path, kn[1], kn[2]) = last.transformation
          /\ last.transformation # get_transformation(last.element)

\* C13: set_transformation(e, t) on an object that no collection holds
\* fails with NotFound and changes nothing, also when a collection holds an
\* element equal to e in every value.
C13_UnregisteredNotFound ==
    [][(last'.op = "set_transformation"
            /\ Registered(mem, last'.element) = {}) =>
          (last'.exc = "NotFound" /\ UNCHANGED container)]_vars

C13_Witness ==
    /\ last.op = "set_transformation" /\ last.exc = "NotFound"
    /\ \E k \in KindSet : \E n \in DOMAIN mem[k] :
          /\ mem[k][n] # last.element
          /\ Content(mem[k][n]) = Content(last.element)

\* C14: set_transformation(e, t) on an object held under more than one
\* (kind, name) key fails with AmbiguousElement and leaves every store as
\* it was.
C14_AmbiguousRejected ==
    [][(last'.op = "set_transformation"
            /\ Cardinality(Registered(mem, last'.element)) > 1) =>
          (last'.exc = "AmbiguousElement" /\ store' = store)]_vars

C14_Witness ==
    /\ last.op = "set_transformation" /\ last.exc = "AmbiguousElement"
    /\ path # None
    /\ Cardinality(Registered(mem, last.element)) > 1
    /\ \E kn \in Registered(mem, last.element) :
          kn[2] \in StoreNames(store, path, kn[1])

\* C15: no object is held under two different (kind, name) keys.
C15_NoInstanceRegisteredTwice ==
    \A k \in KindSet : \A n \in DOMAIN mem[k] :
        Registered(mem, mem[k][n]) = {<<k, n>>}

\* C16: a successful set_transformation(e, t) on a backed container sets the
\* transformation metadata of the store group of e's kind and name to t and
\* leaves the rest of that group, every other group of the store and every
\* other store as they were; on an unbacked container no store changes.
C16_OnlyOwnGroupRewritten ==
    [][(last'.op = "set_transformation" /\ last'.exc = "ok") =>
          IF path = None
          THEN store' = store
          ELSE \E kn \in Registered(mem, last'.element) :
                  LET k == kn[1]
                      n == kn[2]
                      old == store[path].root
                      new == store'[path].root
                  IN  /\ \A l \in Locs \ {path} : store'[l] = store[l]
                      /\ store'[path].exists = store[path].exists
                      /\ Del(new, k) = Del(old, k)
                      /\ StoreNames(store', path, k) = StoreNames(store, path, k) \cup {n}
                      /\ \A m \in StoreNames(store, path, k) \ {n} : new[k][m] = old[k][m]
                      /\ new[k][n].tr = last'.transformation
                      /\ n \in StoreNames(store, path, k) =>
                            new[k][n] = [old[k][n] EXCEPT !.tr = last'.transformation]]_vars

C16_Witness ==
    /\ last.op = "set_transformation" /\ last.exc = "ok"
    /\ path # None
    /\ \E kn \in Registered(mem, last.element) :
          /\ StoredTransformation(store, path, kn[1], kn[2]) = last.transformation
          /\ \E m \in StoreNames(store, path, kn[1]) \ {kn[2]} :
                store[path].root[kn[1]][m].tr # last.transformation

\* C17: set_transformation on a multiscale raster held under one key of a
\* backed container raises, and the transformation metadata of every
\* element in every store stays as it was.
C17_MultiscaleRejected ==
    [][(/\ last'.op = "set_transformation"
        /\ path # None
        /\ last'.element.ms
        /\ \E kn \in Registered(mem, last'.element) :
              /\ kn[1] \in Rasters
              /\ Registered(mem, last'.element) = {kn}) =>
          /\ last'.exc = "NotImplementedError"
          /\ \A l \in Locs, k \in KindSet, n \in Names :
                StoredTransformation(store', l, k, n)
                    = StoredTransformation(store, l, k, n)]_vars

C17_Witness ==
    /\ last.op = "set_transformation" /\ last.exc = "NotImplementedError"
    /\ path # None
    /\ last.element.ms
    /\ \E kn \in Registered(mem, last.element) :
          /\ kn[1] \in Rasters
          /\ StoredTransformation(store, path, kn[1], kn[2]) # last.transformation

----------------------------------------------------------------------------
(* add_<kind>: the entry it leaves, and the validator it applies.          *)

\* the handle read_element gives for an element written to a place
HandleOn(loc, kind, name, element) ==
    [id |-> 0, data |-> element.data, tr |-> element.tr, ndim |-> element.ndim,
     ms |-> element.ms, ok |-> element.ok, from |-> Place(loc, kind, name)]

C19_OverwriteReplacesOneEntry ==
    [][(last'.op = "add" /\ last'.overwrite /\ last'.exc = "ok"
            /\ last'.name \in DOMAIN mem[last'.kind]) =>
          LET k == last'.kind
              n == last'.name
              entry == IF path = None \/ k \notin Reloaded
                       THEN last'.element
                       ELSE HandleOn(path, k, n, last'.element)
          IN  /\ mem' = [mem EXCEPT ![k] = Put(mem[k], n, entry)]
              /\ UNCHANGED <<table, path>>]_vars

C19_Witness ==
    /\ last.op = "add" /\ last.overwrite /\ last.exc = "ok" /\ last.held
    /\ \E other \in DOMAIN mem[last.kind] : other # last.name
    /\ path # None
    /\ mem[last.kind][last.name]
          = HandleOn(path, last.kind, last.name, last.element)
    /\ last.element = NewElement(last.kind)

\* the numbers of axes add_image and add_labels accept, and the schema the
\* element is then validated against
AcceptedNdim(kind) == IF kind = "images" THEN {3, 4} ELSE {2, 3}

SchemaOf(kind, ndim) ==
    IF kind = "images"
    THEN (IF ndim = 3 THEN "Image2D" ELSE "Image3D")
    ELSE (IF ndim = 2 THEN "Labels2D" ELSE "Labels3D")

\* what C20 says of an add of a raster
ValidatedByAxes(kind, name, element, exc, coll) ==
    IF element.ndim \in AcceptedNdim(kind)
    THEN IF Validate(SchemaOf(kind, element.ndim), element)
         THEN exc = "ok" /\ coll[name] = element
         ELSE exc = "SchemaViolation" /\ name \notin DOMAIN coll
    ELSE exc = "UnsupportedShape" /\ name \notin DOMAIN coll

\* C20 as claimed: an image with 3 axes is validated as Image2D and with 4
\* axes as Image3D, labels with 2 axes as Labels2D and with 3 axes as
\* Labels3D; with any other number of axes the add fails with
\* UnsupportedShape and inserts nothing.
C20_ValidatorFromAxesAlways ==
    [][(last'.op = "add" /\ last'.kind \in Rasters) =>
          ValidatedByAxes(last'.kind, last'.name, last'.element, last'.exc,
                          mem'[last'.kind])]_vars

\* C20 as amended: the same for an add that passes the check of the name
\* (the name is new, or overwrite is set); under a name the collection
\* holds, without overwrite, the add fails with DuplicateName whatever the
\* number of axes.
C20_ValidatorFromAxes ==
    [][(last'.op = "add" /\ last'.kind \in Rasters) =>
          IF last'.overwrite \/ last'.name \notin DOMAIN mem[last'.kind]
          THEN ValidatedByAxes(last'.kind, last'.name, last'.element, last'.exc,
                               mem'[last'.kind])
          ELSE last'.exc = "DuplicateName" /\ mem' = mem]_vars

C20_Witness ==
    /\ last.op = "add" /\ last.kind = "images" /\ last.exc = "ok"
    /\ last.element.ndim = 4
    /\ mem["images"][last.name] = last.element

----------------------------------------------------------------------------
(* Queries.                                                                *)

\* C21: query.bounding_box(request) returns a container whose path is unset
\* and whose elements live in memory, on a backed source as on an unbacked
\* one, and the collections, table, path and stores of the source stay as
\* they were.
C21_QueryLeavesSourceAlone ==
    [][last'.op = "bounding_box" =>
          /\ last'.exc = "ok"
          /\ last'.result.returned
          /\ last'.result.path = None
          /\ \A k \in KindSet : \A n \in DOMAIN last'.result.mem[k] :
                last'.result.mem[k][n].from = InMemory
          /\ UNCHANGED container]_vars

C21_Witness ==
    /\ last.op = "bounding_box" /\ last.result.returned
    /\ path # None
    /\ last.result.path = None
    /\ DOMAIN last.result.mem["points"] # {}
    /\ \E n \in DOMAIN mem["points"] : mem["points"][n].from # InMemory

\* the rows of a points element with min <= coordinate <= max on every axis
\* the request names
RowsWithin(element, request) ==
    {row \in Rows(element.data) :
        /\ "x" \in request.axes => (request.min <= row[1] /\ row[1] <= request.max)
        /\ "y" \in request.axes => (request.min <= row[2] /\ row[2] <= request.max)}

\* C22: the result of a bounding-box query holds, under the same name, every
\* points element with a row in the box, with exactly its rows in the box
\* (both ends of every interval included); a points element with no row in
\* the box, or with no row at all, is under no name of the result.
C22_RowsInBoxKept ==
    [][last'.op = "bounding_box" =>
          LET result == last'.result.mem["points"]
              named == {n \in DOMAIN mem["points"] :
                           RowsWithin(mem["points"][n], last'.request) # {}}
          IN  /\ DOMAIN result = named
              /\ \A n \in named :
                    Rows(result[n].data) = RowsWithin(mem["points"][n], last'.request)]_vars

C22_Witness ==
    /\ last.op = "bounding_box"
    /\ last.request = BoundingBoxRequest({"x", "y"}, 0, 5)
    /\ DOMAIN mem["points"] = {"a", "b"}
    /\ Rows(mem["points"]["a"].data) = {<<1, 1>>, <<6, 6>>, <<5, 5>>}
    /\ Rows(mem["points"]["b"].data) = {<<6, 6>>}
    /\ DOMAIN last.result.mem["points"] = {"a"}
    /\ Rows(last.result.mem["points"]["a"].data) = {<<1, 1>>, <<5, 5>>}

\* C23: calling the query manager with a request that is no bounding-box
\* request fails with UnsupportedRequest, returns no container and leaves
\* the source container as it was.
C23_UnknownRequestRejected ==
    [][(last'.op = "query" /\ last'.request.type # "BoundingBoxRequest") =>
          /\ last'.exc = "UnsupportedRequest"
          /\ ~last'.result.returned
          /\ UNCHANGED container]_vars

C23_Witness ==
    /\ last.op = "query" /\ last.exc = "UnsupportedRequest"
    /\ last.request = OtherRequest
    /\ ~last.result.returned
    /\ DOMAIN mem["points"] # {}

----------------------------------------------------------------------------
(* The accessors, and what the collections hold.                           *)

\* C24: an insertion, replacement or deletion through a mapping returned by
\* an accessor is rejected and changes no collection.
C24_AccessorsReadOnly ==
    [][last'.op \in {"setitem", "delitem"} =>
          (last'.exc = "ReadOnly" /\ mem' = mem)]_vars

\* the validator of the kind accepts the element
PassesValidator(kind, element) ==
    IF kind \in Rasters
    THEN /\ element.ndim \in AcceptedNdim(kind)
         /\ Validate(SchemaOf(kind, element.ndim), element)
    ELSE Validate(kind, element)

\* C30: every element a collection holds passes the validator of its kind.
C30_HeldElementsValidated ==
    \A k \in KindSet : \A n \in DOMAIN mem[k] : PassesValidator(k, mem[k][n])

----------------------------------------------------------------------------
(* The parsers.                                                            *)

\* C25: parsing a table with region given as a list yields a categorical
\* region column whose categories are the unique region values in
\* increasing order, each row keeping its value, and records region and
\* region_key in the attributes of the table.
C25_RegionCategoriesSortedUnique ==
    parsed.call = "TableModel.parse" =>
        LET categories == parsed.out.obs.categories
            codes == parsed.out.obs.codes
        IN  /\ Values(categories) = Values(parsed.region)
            /\ \A i \in DOMAIN categories : \A j \in DOMAIN categories :
                  i < j => categories[i] < categories[j]
            /\ DOMAIN codes = DOMAIN parsed.region
            /\ \A i \in DOMAIN codes : categories[codes[i]] = parsed.region[i]
            /\ parsed.out.uns.region = parsed.region
            /\ parsed.out.uns.region_key = parsed.region_key

C25_Witness ==
    /\ parsed.call = "TableModel.parse"
    /\ parsed.region = <<2, 1, 2>>
    /\ parsed.out.obs.categories = <<1, 2>>

\* C26: parsing an element that carries a transformation while passing a
\* transform argument fails with a ValueError; parsing an element that
\* carries none with transform = t gives the transformation that setting t
\* on the element and parsing it without the argument gives.
C26_TransformFromEitherPlace ==
    parsed.call = "parse with transform" =>
        IF get_transformation(parsed.element) # NoTransformation
        THEN parsed.direct.exc = "ValueError"
        ELSE /\ parsed.direct.exc = "ok"
             /\ parsed.direct.tr = parsed.transform
             /\ parsed.after_set.exc = "ok"
             /\ parsed.after_set.tr = parsed.direct.tr

\* C27: parsing shapes with no shape type records Circle, with the type
\* Circle or Square that type; the result carries the coordinates, a size
\* for every row and a transformation.
C27_ShapeTypeDefaultsToCircle ==
    parsed.call = "ShapesModel.parse" =>
        /\ parsed.out.uns.type = IF parsed.shape_type = None THEN "Circle"
                                 ELSE parsed.shape_type
        /\ parsed.out.obsm = parsed.coords
        /\ DOMAIN parsed.out.obs_size = DOMAIN parsed.coords
        /\ parsed.shape_size.form = "scalar" =>
              \A i \in DOMAIN parsed.coords :
                  parsed.out.obs_size[i] = parsed.shape_size.value
        /\ parsed.shape_size.form = "vector" =>
              parsed.out.obs_size = parsed.shape_size.values
        /\ parsed.out.uns.transform # NoTransformation

C27_Witness ==
    /\ parsed.call = "ShapesModel.parse"
    /\ parsed.shape_type = None
    /\ Len(parsed.coords) = 2
    /\ parsed.out.uns.type = "Circle"

----------------------------------------------------------------------------
(* add_<kind> with overwrite on a backed container.                        *)

\* C28: on a backed container, add_<kind>(name, e, overwrite=true) with a
\* valid e whose store write does not fail succeeds and leaves e persisted
\* under (kind, name), for every kind, whatever groups the store holds.
C28_BackedOverwriteSucceeds ==
    [][(/\ last'.op = "add" /\ last'.overwrite
        /\ path # None
        /\ PassesValidator(last'.kind, last'.element)
        /\ last'.exc # "IOError") =>
          /\ last'.exc = "ok"
          /\ last'.name \in StoreNames(store', path, last'.kind)
          /\ store'[path].root[last'.kind][last'.name] = Content(last'.element)]_vars

\* C29: in a backed add with overwrite the collection in memory is changed
\* only after the store write has completed: when the add of a valid
\* element ends with an exception, the collections are as they were.
C29_MemoryChangedAfterStoreWrite ==
    [][(/\ last'.op = "add" /\ last'.overwrite
        /\ path # None
        /\ PassesValidator(last'.kind, last'.element)
        /\ last'.exc # "ok") =>
          mem' = mem]_vars

----------------------------------------------------------------------------
(* write(new_location) on a container backed somewhere else.               *)

\* what the claim promises of such a write: it succeeds, path is the new
\* location, every element held before the call is in the store there, and
\* the store at the previous location is as it was
WrittenElsewhere ==
    /\ last'.exc = "ok"
    /\ path' = last'.loc
    /\ \A k \in KindSet : \A n \in DOMAIN mem[k] :
          /\ n \in StoreNames(store', last'.loc, k)
          /\ store'[last'.loc].root[k][n] = Content(mem[k][n])
    /\ store'[path] = store[path]

\* C32: write(new_location, overwrite) on a container backed at another
\* location, with new_location free or overwrite=true and no store write
\* failing, succeeds: afterwards path is new_location, every element is
\* persisted there, and the store at the previous location is unchanged.
C32_WriteElsewhereSucceeds ==
    [][(/\ last'.op = "write"
        /\ path # None /\ last'.loc # path
        /\ last'.overwrite \/ ~store[last'.loc].exists
        /\ last'.exc # "IOError") => WrittenElsewhere]_vars

----------------------------------------------------------------------------
(* The backing location.                                                   *)

\* C33: path is unset after construction and changes only inside write:
\* add_<kind>, set_transformation, set_transformation_in_memory,
\* get_transformation, the bounding-box query and the summary view leave
\* path as it was, whether they return or raise; and is_backed() is true
\* exactly when path is set.
C33_PathChangesOnlyInWrite ==
    /\ (calls = 0 => path = None)
    /\ [][/\ last'.op # "write" => path' = path
          /\ is_backed([Self EXCEPT !.path = path'])
                <=> path' \in Locs]_vars

C33_Witness ==
    /\ path \in Locs /\ is_backed(Self)
    /\ last.op = "add" /\ last.exc = "IOError"
    /\ calls = MaxCalls

----------------------------------------------------------------------------
(* The collections of two containers.                                      *)

\* C31: two containers built with default arguments or from the same
\* dictionaries share no collection: an add, with or without overwrite, on
\* one of them changes no collection of the other and leaves the
\* dictionaries that were passed to the constructors as they were.
C31_CollectionsNotShared ==
    [][last'.op = "add" =>
          /\ \A o \in dicts.built \ {dicts'.actor} :
                View(dicts', o) = View(dicts, o)
          /\ dicts'.heap[Passed] = dicts.heap[Passed]]_vars

C31_Witness ==
    /\ dicts.given = Owners
    /\ last.op = "add" /\ last.exc = "ok" /\ last.overwrite
    /\ \E o \in Owners \ {dicts.actor} :
          /\ last.name \in DOMAIN View(dicts, o)[focus]
          /\ View(dicts, o)[focus][last.name] = InitElement(focus, last.name)
          /\ View(dicts, dicts.actor)[focus][last.name] = last.element
    /\ dicts.heap[Passed][focus][last.name] = InitElement(focus, last.name)

====
